---------------------------- MODULE Spec2Model ----------------------------
(***************************************************************************)
(* amaterasu: secure file deletion.  A model of the overwrite engine:      *)
(* FileWiper::wipe (src/src/io/mod.rs), its streamed pass (wipe_pass) and  *)
(* its chunk-parallel pass (AsyncWiper::parallel_wipe / wipe_chunk,        *)
(* src/src/io/async_writer.rs), and the BufferPool the chunk tasks share.  *)
(*                                                                         *)
(* Three specifications share the variables:                               *)
(*   Spec      one call of FileWiper::wipe on one file                     *)
(*   ParSpec   one direct call of AsyncWiper::parallel_wipe                *)
(*   PoolSpec  concurrent callers of BufferPool::get_buffer/return_buffer  *)
(*                                                                         *)
(* Sizes are bytes.  Files are a few bytes long, so the 1 MiB threshold of *)
(* io/mod.rs:80 is stood in for by the bound ASYNC_THRESHOLD; every other  *)
(* number of the code keeps its value.                                     *)
(***************************************************************************)
EXTENDS Integers, Sequences, FiniteSets, TLC

-----------------------------------------------------------------------------
(* Bounds of the model *)

\* largest file length, in bytes
MaxFileSize == 17
\* largest block size the medium probe reads from sysfs (0 is a legal reading)
MaxBlock == 2
\* stand-in for the 1024 * 1024 of io/mod.rs:80: files longer than this take
\* the parallel path
ASYNC_THRESHOLD == 4
\* largest value num_cpus::get() returns
MaxCpus == 4
\* ParSpec: largest file_size, chunk_size and buffer_size handed to the
\* AsyncWiper
MaxParFile == 5
MaxParChunk == 2
MaxParBuf == 2
\* PoolSpec: buffers a caller may own at once, largest buffer_size, largest
\* max_buffers, number of distinct buffers ever allocated
MaxHeld == 2
MaxPoolBufSize == 1
MaxPoolCap == 2
MaxIds == 3

-----------------------------------------------------------------------------
(* Program constants *)

\* io/mod.rs:155  chunk_size = optimal_block_size * 16
CHUNK_FACTOR == 16
\* async_writer.rs:49  num_cpus::get().max(4)
MIN_CONCURRENCY == 4
\* async_writer.rs:48  max_buffers = 16
POOL_MAX_BUFFERS == 16
\* storage/mod.rs:15,19  block size of SSD and Unknown media
DEFAULT_BLOCK_SIZE == 4096
\* a file of n bytes as it is before the wipe: every byte 'A'
OrigContent(n) == [i \in 1..n |-> 65]

Min(a, b) == IF a < b THEN a ELSE b
Max(a, b) == IF a > b THEN a ELSE b

-----------------------------------------------------------------------------
(* Patterns: src/src/patterns/mod.rs *)

Random == [kind |-> "Random", byte |-> 0]
Fixed(b) == [kind |-> "Fixed", byte |-> b]
Zeros == [kind |-> "Zeros", byte |-> 0]
Ones == [kind |-> "Ones", byte |-> 0]

\* the bytes a ChaCha20 stream may produce, two of the 256
RandomBytes == {0, 60}

\* WipePattern::generate: fill a buffer of n bytes; r is the byte the random
\* stream yields for this call
generate(pattern, n, r) ==
    [i \in 1..n |->
        CASE pattern.kind = "Random" -> r
          [] pattern.kind = "Fixed" -> pattern.byte
          [] pattern.kind = "Zeros" -> 0
          [] pattern.kind = "Ones" -> 255]

\* the byte a deterministic pattern declares
PatternByte(pattern) ==
    CASE pattern.kind = "Fixed" -> pattern.byte
      [] pattern.kind = "Zeros" -> 0
      [] pattern.kind = "Ones" -> 255
      [] OTHER -> -1

Modes == {"Fast", "Standard", "Paranoid"}

\* WipePattern::name
name(pattern) ==
    CASE pattern.kind = "Random" -> "random"
      [] pattern.kind = "Fixed" ->
            IF pattern.byte = 85 THEN "0x55"
            ELSE IF pattern.byte = 170 THEN "0xAA"
            ELSE "fixed"
      [] pattern.kind = "Zeros" -> "zeros"
      [] pattern.kind = "Ones" -> "ones"

\* sequences with the fixed passes of Paranoid swapped and Standard cut short
create_pattern_sequence_swapped(m) ==
    CASE m = "Fast" -> <<Random>>
      [] m = "Standard" -> <<Random, Zeros>>
      [] m = "Paranoid" ->
            <<Random, Fixed(170), Fixed(85), Random, Ones, Zeros, Random>>

create_pattern_sequence(m) ==
    CASE m = "Fast" -> <<Random>>
      [] m = "Standard" -> <<Random, Zeros, Random>>
      [] m = "Paranoid" ->
            <<Random, Fixed(85), Fixed(170), Random, Ones, Zeros, Random>>

\* called by FileWiper::wipe, defined nowhere under src/: the mode's baseline
\* sequence, the selector's optional collapse for flash media left out
create_storage_aware_pattern_sequence(m, storage) == create_pattern_sequence(m)

-----------------------------------------------------------------------------
(* Medium descriptor: src/src/storage/mod.rs *)

BlockSizes == 0..MaxBlock

StorageTypes ==
    [kind : {"HDD"}, size : BlockSizes]
        \cup [kind : {"NVMe"}, size : BlockSizes]
        \cup [kind : {"SSD", "Unknown"}, size : {0}]

get_optimal_block_size(storage) ==
    CASE storage.kind = "HDD" -> storage.size
      [] storage.kind = "SSD" -> DEFAULT_BLOCK_SIZE
      [] storage.kind = "NVMe" -> storage.size
      [] storage.kind = "Unknown" -> DEFAULT_BLOCK_SIZE

-----------------------------------------------------------------------------
(* Filesystems and their optimizers: src/src/filesystem *)

FilesystemTypes == {"Ext4", "Xfs", "Btrfs", "Zfs", "F2fs", "Unknown"}

\* no probe has run yet
NoFilesystem == "none"

supports_cow(fs) == fs \in {"Btrfs", "Zfs"}

\* get_optimizer().get_recommended_passes()
get_recommended_passes(fs) ==
    CASE fs = "Btrfs" -> 5
      [] fs = "Zfs" -> 2
      [] fs = "Ext4" -> 3
      [] fs = "Xfs" -> 3
      [] fs = "F2fs" -> 1
      [] fs = "Unknown" -> 3

(* detect_filesystem_type: src/src/filesystem/detector.rs:7-74 *)

\* filesystem names as /proc/mounts and `stat -f -c %T` print them
FsStrings == {"ext4", "EXT4", "btrfs", "xfs", "zfs", "f2fs", "tmpfs",
              "ext2/ext3"}

\* /proc/mounts: it cannot be read, no line matches the device, or the
\* third field of the first matching line
Unreadable == "<unreadable>"
NoMatch == "<no match>"
MountsInputs == {Unreadable, NoMatch} \cup FsStrings

\* the stat command: it cannot be run or exits non-zero, or its output
CommandFailed == "<failed>"
StatInputs == {CommandFailed} \cup FsStrings

\* str::to_lowercase on the names above
to_lowercase(str) == IF str = "EXT4" THEN "ext4" ELSE str

parse_filesystem_type(fs_type) ==
    CASE to_lowercase(fs_type) = "ext4" -> "Ext4"
      [] to_lowercase(fs_type) = "btrfs" -> "Btrfs"
      [] to_lowercase(fs_type) = "xfs" -> "Xfs"
      [] to_lowercase(fs_type) = "zfs" -> "Zfs"
      [] to_lowercase(fs_type) = "f2fs" -> "F2fs"
      [] OTHER -> "Unknown"

\* Result<FilesystemType>
FsOk(fs) == [ok |-> TRUE, fs |-> fs]
FsErr == [ok |-> FALSE, fs |-> NoFilesystem]

\* the match on the output of the stat command
stat_fallback(stat) ==
    IF stat = CommandFailed THEN FsOk("Unknown")
    ELSE FsOk(parse_filesystem_type(stat))

\* read_to_string("/proc/mounts")? comes first: its error is returned; then
\* the first matching line decides, and only without one the stat command
detect_filesystem_type(mounts, stat) ==
    IF mounts = Unreadable THEN FsErr
    ELSE IF mounts # NoMatch THEN FsOk(parse_filesystem_type(mounts))
    ELSE stat_fallback(stat)

\* Result::unwrap_or
unwrap_or(r, default) == IF r.ok THEN r.fs ELSE default

(* the optimizers' hooks: filesystem/mod.rs:27-33, cow.rs:9-47, 62-76,     *)
(* detector.rs:101-111, 125-133, 147-156                                   *)

\* how an external command can end: exit status 0, another exit status, or
\* it could not be run at all
CommandOutcomes == {"success", "nonzero", "missing"}

\* the outcomes of a hook's command; a hook without one runs nothing
CommandRuns(command) ==
    IF command = "none" THEN {"not run"} ELSE CommandOutcomes

\* the command each hook runs
PreCommand(fs) == IF fs = "Btrfs" THEN "chattr" ELSE "none"
PostCommand(fs) == IF fs = "Unknown" THEN "none" ELSE "sync"

NoHooks == [pre |-> "not run", post |-> "not run"]

\* hooks that pass the failure of their command on to wipe
pre_wipe_setup_strict(fs, cmd) ==
    IF cmd \in {"nonzero", "missing"} THEN "Err" ELSE "Ok"

\* pre_wipe_setup: BtrfsOptimizer matches on the output of chattr and prints
\* in each arm; every optimizer ends in Ok(())
pre_wipe_setup(fs, cmd) ==
    CASE fs = "Btrfs" /\ cmd = "success" -> "Ok"
      [] fs = "Btrfs" /\ cmd = "nonzero" -> "Ok"
      [] fs = "Btrfs" /\ cmd = "missing" -> "Ok"
      [] OTHER -> "Ok"

\* post_wipe_cleanup: `let _ = Command::new("sync").status();` then Ok(())
post_wipe_cleanup(fs, cmd) == "Ok"

-----------------------------------------------------------------------------
(* The file on disk *)

\* write(2) of data at byte offset off on a private handle: the bytes of
\* [off, off + Len(data)) are replaced, the file grows if the range ends
\* beyond its end
WriteAt(c, off, data) ==
    [i \in 1..Max(Len(c), IF Len(data) = 0 THEN 0 ELSE off + Len(data)) |->
        IF i > off /\ i <= off + Len(data) THEN data[i - off]
        ELSE IF i <= Len(c) THEN c[i] ELSE 0]

\* the first k bytes of data
Prefix(data, k) == [i \in 1..k |-> data[i]]

-----------------------------------------------------------------------------
(* BufferPool: src/src/io/async_writer.rs:10-39.  A buffer is its length   *)
(* and the identity of its allocation.                                     *)

NoBuf == [len |-> 0, id |-> -1]

\* vec![0u8; buffer_size]
AllocBuffer(size, fresh) == [len |-> size, id |-> fresh]

\* get_buffer: pop_front, or allocate when the queue is empty
get_buffer(bufs, size, fresh) ==
    IF bufs # <<>>
    THEN [buf |-> Head(bufs), rest |-> Tail(bufs)]
    ELSE [buf |-> AllocBuffer(size, fresh), rest |-> bufs]

ReturnAlways(bufs, size, cap, b) == Append(bufs, b)

ReturnAnyLength(bufs, size, cap, b) ==
    IF Len(bufs) < cap THEN Append(bufs, b) ELSE bufs

\* return_buffer: push_back if there is room and the length is buffer_size
return_buffer(bufs, size, cap, b) ==
    IF Len(bufs) < cap /\ b.len = size THEN Append(bufs, b) ELSE bufs

-----------------------------------------------------------------------------
VARIABLES
    mode,               \* config.mode
    verify,             \* config.verify
    storage_type,       \* FileWiper.storage_type
    content,            \* the bytes of the file
    exists,             \* the path resolves
    pc,                 \* position of the orchestrating task
    result,             \* "none", "Ok" or "Err": what the call returned
    file_size,          \* the length captured by wipe
    patterns,           \* the pattern sequence of this wipe
    pass_num,           \* passes completed
    bytes_written,      \* wipe_pass: the loop counter
    chunk_size,         \* parallel_wipe: its chunk_size argument
    tasks,              \* parallel_wipe: the chunk tasks of the pass
    concurrency_limit,  \* AsyncWiper: capacity of the semaphore
    permits,            \* AsyncWiper: permits available
    buffer_size,        \* BufferPool.buffer_size
    max_buffers,        \* BufferPool.max_buffers
    buffers,            \* BufferPool.buffers
    pass_bytes,         \* history: bytes written by the current pass
    full_sync,          \* history: sync_all issued since the last write
    io_failed,          \* history: pass in which an open/seek/write/sync failed
    verified,           \* history: verify_wipe ran
    post_ran,           \* history: post_wipe_cleanup ran
    filesystem_type,    \* wipe: the filesystem the probe reported
    verdict,            \* verify_wipe: what its scan of the file found
    steps,              \* history: the steps of the wipe, in the order run
    hooks,              \* history: how the hooks' external commands ended
    held,               \* PoolSpec: buffers each caller owns
    next_id,            \* PoolSpec: allocations made so far
    last_op,            \* PoolSpec: the last pool call and what it saw
    mw,                 \* MetaSpec: the fields of the MetadataWiper
    mcall,              \* MetaSpec: the running wipe_metadata call
    dirs,               \* MetaSpec: the names in each directory
    batch,              \* BatchSpec: the running wipe_files call
    rv,                 \* VerifySpec: the running ReadbackVerifier::verify call
    probe               \* FsProbeSpec, MediumSpec: the running probe call

vars == <<mode, verify, storage_type, content, exists, pc, result, file_size,
          patterns, pass_num, bytes_written, chunk_size, tasks,
          concurrency_limit, permits, buffer_size, max_buffers, buffers,
          pass_bytes, full_sync, io_failed, verified, post_ran,
          filesystem_type, verdict, steps, hooks,
          held, next_id, last_op, mw, mcall, dirs, batch, rv, probe>>

cfgVars == <<mode, verify, storage_type>>
poolVars == <<held, next_id, last_op>>
histVars == <<pass_bytes, full_sync, io_failed, verified, post_ran>>
orchVars == <<filesystem_type, verdict, steps, hooks>>
metaVars == <<mw, mcall, dirs>>
sideVars == <<metaVars, batch, rv, probe>>

\* no call is running
Idle == [pc |-> "idle"]

\* the specifications of the wipe leave the other components idle
SideIdle ==
    /\ mw = Idle
    /\ mcall = Idle
    /\ dirs = <<>>
    /\ batch = Idle
    /\ rv = Idle
    /\ probe = Idle

NoOp == [op |-> "none", pre |-> <<>>, buf |-> NoBuf, caller |-> 0]


-----------------------------------------------------------------------------
(* Init: the state when Amaterasu::wipe_file is called on a path *)

InitCommon ==
    /\ result = "none"
    /\ file_size = 0
    /\ patterns = <<>>
    /\ pass_num = 0
    /\ bytes_written = 0
    /\ chunk_size = 0
    /\ tasks = <<>>
    /\ concurrency_limit = 0
    /\ permits = 0
    /\ buffer_size = 0
    /\ max_buffers = 0
    /\ buffers = <<>>
    /\ pass_bytes = 0
    /\ full_sync = FALSE
    /\ io_failed = -1
    /\ verified = FALSE
    /\ post_ran = FALSE
    /\ filesystem_type = NoFilesystem
    /\ verdict = "none"
    /\ steps = <<>>
    /\ hooks = NoHooks
    /\ SideIdle
    /\ held = <<>>
    /\ next_id = 0
    /\ last_op = NoOp

Init ==
    /\ mode \in Modes
    /\ verify \in BOOLEAN
    /\ storage_type \in StorageTypes
    /\ \E n \in 0..MaxFileSize : content = OrigContent(n)
    /\ exists \in BOOLEAN
    /\ pc = "wipe"
    /\ InitCommon

-----------------------------------------------------------------------------
(* FileWiper::wipe: src/src/io/mod.rs:24-104 *)

PassOutcomeIgnoreError(ok, next) == next

\* the `?` after a fallible step of a pass: an error ends the wipe
PassOutcome(ok, next) == IF ok THEN next ELSE "failed"

ResultOf(p, r) ==
    CASE p = "failed" -> "Err"
      [] p = "panicked" -> "Panic"
      [] p = "done" -> "Ok"
      [] OTHER -> r

\* wipe_file's medium probe and the head of wipe: stat, filesystem probe,
\* pre-hook, pattern selection, AsyncWiper::new
WipeBegin ==
    /\ pc = "wipe"
    /\ IF exists
       THEN /\ file_size' = Len(content)
            /\ \E n \in 1..MaxCpus :
                  /\ concurrency_limit' = Max(n, MIN_CONCURRENCY)
                  /\ permits' = Max(n, MIN_CONCURRENCY)
            /\ buffer_size' = get_optimal_block_size(storage_type)
            /\ max_buffers' = POOL_MAX_BUFFERS
            /\ \E m \in MountsInputs, s \in StatInputs :
                  filesystem_type' =
                      unwrap_or(detect_filesystem_type(m, s), "Unknown")
            /\ \E cmd \in CommandRuns(PreCommand(filesystem_type')) :
                  /\ hooks' = [hooks EXCEPT !.pre = cmd]
                  /\ IF pre_wipe_setup(filesystem_type', cmd) = "Ok"
                     THEN /\ pc' = "loop"
                          /\ patterns' =
                                create_storage_aware_pattern_sequence(
                                    mode, storage_type)
                          /\ steps' = <<"medium_probe", "stat", "fs_probe",
                                        "pre_hook", "select">>
                     ELSE /\ pc' = "failed"
                          /\ patterns' = patterns
                          /\ steps' = <<"medium_probe", "stat", "fs_probe",
                                        "pre_hook">>
       ELSE /\ pc' = "failed"
            /\ steps' = <<"medium_probe">>
            /\ UNCHANGED <<file_size, patterns, concurrency_limit, permits,
                           buffer_size, max_buffers, filesystem_type, hooks>>
    /\ result' = ResultOf(pc', result)
    /\ buffers' = <<>>
    /\ pass_num' = 0
    /\ UNCHANGED <<cfgVars, content, exists, bytes_written, chunk_size, tasks,
                   histVars, poolVars, sideVars, verdict>>

\* the loop of wipe has a pass left to run
PassPending == pc = "loop" /\ pass_num < Len(patterns)

\* a loop that may be left before its last pass
PassesOverEarly == pc = "loop"

\* the loop of wipe has run every pattern of the sequence

CurrentPattern == patterns[pass_num + 1]

RandomChoices(pattern) == IF pattern.kind = "Random" THEN RandomBytes ELSE {0}

(* wipe_pass, the streamed path: io/mod.rs:106-145 *)

\* open for writing, seek to 0, allocate the block buffer
StreamOpen ==
    /\ PassPending
    /\ ~(file_size > ASYNC_THRESHOLD)
    /\ \E ok \in BOOLEAN :
          /\ pc' = PassOutcome(ok, "stream")
          /\ io_failed' = IF ok THEN io_failed ELSE pass_num
    /\ result' = ResultOf(pc', result)
    /\ bytes_written' = 0
    /\ pass_bytes' = 0
    /\ full_sync' = FALSE
    /\ steps' = Append(steps, "pass")
    /\ UNCHANGED <<cfgVars, content, exists, file_size, patterns, pass_num,
                   chunk_size, tasks, concurrency_limit, permits, buffer_size,
                   max_buffers, buffers, verified, post_ran, poolVars, sideVars,
                   filesystem_type, verdict, hooks>>

\* one iteration of the while loop: generate, write_all, flush
StreamWrite ==
    /\ pc = "stream"
    /\ bytes_written < file_size
    /\ LET block_size == get_optimal_block_size(storage_type)
           n == Min(block_size, file_size - bytes_written)
       IN \E r \in RandomChoices(CurrentPattern) :
            LET data == generate(CurrentPattern, n, r)
            IN \/ /\ content' = WriteAt(content, bytes_written, data)
                  /\ bytes_written' = bytes_written + n
                  /\ pass_bytes' = pass_bytes + n
                  /\ pc' = "stream"
                  /\ UNCHANGED io_failed
               \/ \E k \in 0..(n - 1) :
                     /\ content' = WriteAt(content, bytes_written, Prefix(data, k))
                     /\ pass_bytes' = pass_bytes + k
                     /\ pc' = PassOutcome(FALSE, "stream")
                     /\ io_failed' = pass_num
                     /\ UNCHANGED bytes_written
    /\ result' = ResultOf(pc', result)
    /\ full_sync' = FALSE
    /\ UNCHANGED <<cfgVars, exists, file_size, patterns, pass_num, chunk_size,
                   tasks, concurrency_limit, permits, buffer_size, max_buffers,
                   buffers, verified, post_ran, poolVars, sideVars, orchVars>>

\* after the loop: sync_all, and the pass is over
StreamSync ==
    /\ pc = "stream"
    /\ ~(bytes_written < file_size)
    /\ \E ok \in BOOLEAN :
          /\ pc' = PassOutcome(ok, "loop")
          /\ full_sync' = ok
          /\ pass_num' = IF ok THEN pass_num + 1 ELSE pass_num
          /\ io_failed' = IF ok THEN io_failed ELSE pass_num
    /\ result' = ResultOf(pc', result)
    /\ UNCHANGED <<cfgVars, content, exists, file_size, patterns, bytes_written,
                   chunk_size, tasks, concurrency_limit, permits, buffer_size,
                   max_buffers, buffers, pass_bytes, verified, post_ran,
                   poolVars, sideVars, orchVars>>

-----------------------------------------------------------------------------
(* AsyncWiper::parallel_wipe and wipe_chunk: async_writer.rs:57-116 *)

\* a partition whose last chunk is as long as the others
MakeTasksFullLast(fsize, csize) ==
    LET chunks == (fsize + csize - 1) \div csize
    IN [i \in 1..chunks |->
          [st |-> "waiting",
           off |-> (i - 1) * csize,
           len |-> csize,
           permit |-> FALSE,
           buf |-> NoBuf]]

\* the futures parallel_wipe builds, one per chunk; chunk i of the code is
\* tasks[i + 1]
MakeTasks(fsize, csize) ==
    LET chunks == (fsize + csize - 1) \div csize
    IN [i \in 1..chunks |->
          [st |-> "waiting",
           off |-> (i - 1) * csize,
           len |-> IF i = chunks THEN fsize - (i - 1) * csize ELSE csize,
           permit |-> FALSE,
           buf |-> NoBuf]]

TaskIds == DOMAIN tasks

\* the chunk tasks whose future holds a permit
PermitHolders == {i \in TaskIds : tasks[i].permit}

\* the chunk tasks whose blocking closure is running
RunningClosures == {i \in TaskIds : tasks[i].st \in {"spawned", "opened", "written"}}

\* the body of parallel_wipe up to try_join_all; a chunk_size of 0 divides by
\* zero
StartParallel(csize) ==
    /\ chunk_size' = csize
    /\ IF csize = 0
       THEN /\ pc' = "panicked"
            /\ tasks' = <<>>
       ELSE /\ pc' = "par"
            /\ tasks' = MakeTasks(file_size, csize)
    /\ result' = ResultOf(pc', result)
    /\ pass_bytes' = 0
    /\ full_sync' = FALSE

\* async_wipe_pass: io/mod.rs:147-166
ParallelBegin ==
    /\ PassPending
    /\ file_size > ASYNC_THRESHOLD
    /\ StartParallel(get_optimal_block_size(storage_type) * CHUNK_FACTOR)
    /\ steps' = Append(steps, "pass")
    /\ UNCHANGED <<cfgVars, content, exists, file_size, patterns, pass_num,
                   bytes_written, concurrency_limit, permits, buffer_size,
                   max_buffers, buffers, io_failed, verified, post_ran,
                   poolVars, sideVars, filesystem_type, verdict,
                   hooks>>

AcquireUnbounded(i) == tasks[i].st = "waiting"

\* Semaphore::acquire: a permit is free and every earlier waiter has been served
\* (the futures are first polled in index order and the semaphore is fair)
CanAcquire(i) ==
    /\ tasks[i].st = "waiting"
    /\ permits > 0
    /\ \A j \in TaskIds : j < i => tasks[j].st # "waiting"

\* wipe_chunk up to spawn_blocking
Acquire(i) ==
    /\ pc = "par"
    /\ CanAcquire(i)
    /\ permits' = permits - 1
    /\ tasks' = [tasks EXCEPT ![i].st = "spawned", ![i].permit = TRUE]
    /\ UNCHANGED <<cfgVars, content, exists, pc, result, file_size, patterns,
                   pass_num, bytes_written, chunk_size, concurrency_limit,
                   buffer_size, max_buffers, buffers, histVars, poolVars, sideVars, orchVars>>

\* the closure: get_buffer, generate, open for writing, seek to start_offset
ChunkStart(i) ==
    /\ tasks[i].st = "spawned"
    /\ LET g == get_buffer(buffers, buffer_size, 0)
       IN /\ buffers' = g.rest
          /\ \E ok \in BOOLEAN :
                /\ tasks' = [tasks EXCEPT ![i].st = IF ok THEN "opened" ELSE "err",
                                          ![i].buf = IF ok THEN g.buf ELSE NoBuf]
                /\ io_failed' = IF ok THEN io_failed ELSE pass_num
    /\ UNCHANGED <<cfgVars, content, exists, pc, result, file_size, patterns,
                   pass_num, bytes_written, chunk_size, concurrency_limit,
                   permits, buffer_size, max_buffers, pass_bytes, full_sync,
                   verified, post_ran, poolVars, sideVars, orchVars>>

ChunkSliceWhole(len, buffer_len) == len

\* &mut buffer[..chunk_size.min(buffer_len)]: the bytes the closure writes
ChunkSlice(len, buffer_len) == Min(len, buffer_len)

\* the closure: write_all, sync_data
ChunkWrite(i) ==
    /\ tasks[i].st = "opened"
    /\ LET n == ChunkSlice(tasks[i].len, tasks[i].buf.len)
       IN \E r \in RandomChoices(CurrentPattern) :
            LET data == generate(CurrentPattern, n, r)
            IN \/ \E synced \in BOOLEAN :
                     /\ content' = WriteAt(content, tasks[i].off, data)
                     /\ pass_bytes' = pass_bytes + n
                     /\ tasks' = [tasks EXCEPT
                                    ![i].st = IF synced THEN "written" ELSE "err",
                                    ![i].buf = IF synced THEN @ ELSE NoBuf]
                     /\ io_failed' = IF synced THEN io_failed ELSE pass_num
               \/ \E k \in 0..(n - 1) :
                     /\ content' = WriteAt(content, tasks[i].off, Prefix(data, k))
                     /\ pass_bytes' = pass_bytes + k
                     /\ tasks' = [tasks EXCEPT ![i].st = "err", ![i].buf = NoBuf]
                     /\ io_failed' = pass_num
    /\ full_sync' = FALSE
    /\ UNCHANGED <<cfgVars, exists, pc, result, file_size, patterns, pass_num,
                   bytes_written, chunk_size, concurrency_limit, permits,
                   buffer_size, max_buffers, buffers, verified, post_ran,
                   poolVars, sideVars, orchVars>>

\* the closure: return_buffer, Ok(())
ChunkFinish(i) ==
    /\ tasks[i].st = "written"
    /\ buffers' = return_buffer(buffers, buffer_size, max_buffers, tasks[i].buf)
    /\ tasks' = [tasks EXCEPT ![i].st = "ok", ![i].buf = NoBuf]
    /\ UNCHANGED <<cfgVars, content, exists, pc, result, file_size, patterns,
                   pass_num, bytes_written, chunk_size, concurrency_limit,
                   permits, buffer_size, max_buffers, histVars, poolVars, sideVars, orchVars>>

\* a future that completes and keeps its permit
TaskJoinLeak(i) ==
    /\ pc = "par"
    /\ tasks[i].st = "ok"
    /\ tasks[i].permit
    /\ tasks' = [tasks EXCEPT ![i].st = "joined", ![i].permit = FALSE]
    /\ UNCHANGED <<cfgVars, content, exists, pc, result, file_size, patterns,
                   pass_num, bytes_written, chunk_size, concurrency_limit,
                   permits, buffer_size, max_buffers, buffers, histVars,
                   poolVars, sideVars, orchVars>>

\* the future of chunk i sees its closure's Ok and completes: the permit drops
TaskJoin(i) ==
    /\ pc = "par"
    /\ tasks[i].st = "ok"
    /\ tasks[i].permit
    /\ permits' = permits + 1
    /\ tasks' = [tasks EXCEPT ![i].st = "joined", ![i].permit = FALSE]
    /\ UNCHANGED <<cfgVars, content, exists, pc, result, file_size, patterns,
                   pass_num, bytes_written, chunk_size, concurrency_limit,
                   buffer_size, max_buffers, buffers, histVars, poolVars, sideVars, orchVars>>

\* the tasks after try_join_all dropped the futures: a waiting future is
\* cancelled, a permit is given back, a spawned closure keeps running detached
DropFutures ==
    [j \in TaskIds |->
        IF tasks[j].st = "waiting"
        THEN [tasks[j] EXCEPT !.st = "cancelled"]
        ELSE [tasks[j] EXCEPT !.permit = FALSE]]

\* the future of chunk i yields Err: try_join_all returns it and drops the rest
ParallelFail(i) ==
    /\ pc = "par"
    /\ tasks[i].st = "err"
    /\ tasks' = DropFutures
    /\ permits' = permits + Cardinality(PermitHolders)
    /\ pc' = "failed"
    /\ result' = ResultOf(pc', result)
    /\ UNCHANGED <<cfgVars, content, exists, file_size, patterns, pass_num,
                   bytes_written, chunk_size, concurrency_limit, buffer_size,
                   max_buffers, buffers, histVars, poolVars, sideVars, orchVars>>

JoinedAny == \E i \in TaskIds : tasks[i].st = "joined"

\* try_join_all yields Ok once every future has completed
JoinedAll == \A i \in TaskIds : tasks[i].st = "joined"

\* async_wipe_pass returns Ok: the pass is over
ParallelOk ==
    /\ pc = "par"
    /\ JoinedAll
    /\ pc' = "loop"
    /\ pass_num' = pass_num + 1
    /\ UNCHANGED <<cfgVars, content, exists, result, file_size, patterns,
                   bytes_written, chunk_size, tasks, concurrency_limit, permits,
                   buffer_size, max_buffers, buffers, histVars, poolVars, sideVars, orchVars>>

-----------------------------------------------------------------------------
(* The end of wipe: io/mod.rs:94-103 *)

PassesOver == pc = "loop" /\ ~(pass_num < Len(patterns))

\* verify_wipe's scan: pattern_found is set by the first byte that is not 0
pattern_found(c) == \E i \in 1..Len(c) : c[i] # 0

\* a verifier that turns the warning into an error
VerifyOutcomeStrict(io_ok, found) ==
    IF io_ok /\ found THEN "verified" ELSE "failed"

\* what verify_wipe returns to wipe: Err for a failed open or read, Ok(())
\* whatever pattern_found is
VerifyOutcome(io_ok, found) == IF io_ok THEN "verified" ELSE "failed"

\* verify_wipe: opening or reading the file may fail; what it reads only
\* chooses the message
VerifyWipe ==
    /\ PassesOver
    /\ verify
    /\ \E io_ok \in BOOLEAN :
          LET seen == Prefix(content, Min(file_size, Len(content))) IN
          /\ pc' = VerifyOutcome(io_ok, pattern_found(seen))
          /\ verdict' = IF ~io_ok THEN "none"
                         ELSE IF pattern_found(seen) THEN "pattern_found"
                         ELSE "zeros_only"
    /\ result' = ResultOf(pc', result)
    /\ verified' = TRUE
    /\ steps' = Append(steps, "verify")
    /\ UNCHANGED <<cfgVars, content, exists, file_size, patterns, pass_num,
                   bytes_written, chunk_size, tasks, concurrency_limit, permits,
                   buffer_size, max_buffers, buffers, pass_bytes, full_sync,
                   io_failed, post_ran, poolVars, sideVars, filesystem_type,
                   hooks>>

\* fs_optimizer.post_wipe_cleanup(path)?
PostWipeCleanup ==
    /\ \/ PassesOver /\ ~verify
       \/ pc = "verified"
    /\ \E cmd \in CommandRuns(PostCommand(filesystem_type)) :
          /\ pc' = IF post_wipe_cleanup(filesystem_type, cmd) = "Ok"
                   THEN "post" ELSE "failed"
          /\ hooks' = [hooks EXCEPT !.post = cmd]
    /\ result' = ResultOf(pc', result)
    /\ post_ran' = TRUE
    /\ steps' = Append(steps, "post_hook")
    /\ UNCHANGED <<cfgVars, content, exists, file_size, patterns,
                   pass_num, bytes_written, chunk_size, tasks,
                   concurrency_limit, permits, buffer_size, max_buffers,
                   buffers, pass_bytes, full_sync, io_failed, verified,
                   poolVars, sideVars, filesystem_type, verdict>>

\* std::fs::remove_file
RemoveFile ==
    /\ pc = "post"
    /\ \E ok \in BOOLEAN :
          /\ pc' = IF ok THEN "done" ELSE "failed"
          /\ exists' = ~ok
    /\ result' = ResultOf(pc', result)
    /\ steps' = Append(steps, "unlink")
    /\ UNCHANGED <<cfgVars, content, file_size, patterns, pass_num,
                   bytes_written, chunk_size, tasks, concurrency_limit, permits,
                   buffer_size, max_buffers, buffers, histVars, poolVars, sideVars,
                   filesystem_type, verdict, hooks>>

Next ==
    \/ WipeBegin
    \/ StreamOpen
    \/ StreamWrite
    \/ StreamSync
    \/ ParallelBegin
    \/ \E i \in TaskIds : Acquire(i)
    \/ \E i \in TaskIds : ChunkStart(i)
    \/ \E i \in TaskIds : ChunkWrite(i)
    \/ \E i \in TaskIds : ChunkFinish(i)
    \/ \E i \in TaskIds : TaskJoin(i)
    \/ \E i \in TaskIds : ParallelFail(i)
    \/ ParallelOk
    \/ VerifyWipe
    \/ PostWipeCleanup
    \/ RemoveFile

Spec == Init /\ [][Next]_vars

-----------------------------------------------------------------------------
(* ParSpec: AsyncWiper::new(buffer_size) followed by one call of           *)
(* parallel_wipe(path, pattern, file_size, chunk_size) on a file of        *)
(* file_size bytes, as tests::test_async_wiper does.                       *)

ParPatterns == {Fixed(170)}

ParInit ==
    /\ mode = "Fast"
    /\ verify = FALSE
    /\ storage_type = [kind |-> "Unknown", size |-> 0]
    /\ exists = TRUE
    /\ pc = "par_call"
    /\ result = "none"
    /\ \E n \in 0..MaxParFile :
          /\ file_size = n
          /\ content = OrigContent(n)
    /\ \E p \in ParPatterns : patterns = <<p>>
    /\ pass_num = 0
    /\ bytes_written = 0
    /\ chunk_size \in 0..MaxParChunk
    /\ tasks = <<>>
    /\ \E n \in 1..MaxCpus :
          /\ concurrency_limit = Max(n, MIN_CONCURRENCY)
          /\ permits = Max(n, MIN_CONCURRENCY)
    /\ buffer_size \in 1..MaxParBuf
    /\ max_buffers = POOL_MAX_BUFFERS
    /\ buffers = <<>>
    /\ pass_bytes = 0
    /\ full_sync = FALSE
    /\ io_failed = -1
    /\ verified = FALSE
    /\ post_ran = FALSE
    /\ filesystem_type = NoFilesystem
    /\ verdict = "none"
    /\ steps = <<>>
    /\ hooks = NoHooks
    /\ SideIdle
    /\ held = <<>>
    /\ next_id = 0
    /\ last_op = NoOp

\* parallel_wipe is entered with the arguments of the call
ParCall ==
    /\ pc = "par_call"
    /\ StartParallel(chunk_size)
    /\ UNCHANGED <<cfgVars, content, exists, file_size, patterns, pass_num,
                   bytes_written, concurrency_limit, permits, buffer_size,
                   max_buffers, buffers, io_failed, verified, post_ran,
                   poolVars, sideVars, orchVars>>

\* parallel_wipe returns Ok(())
ParReturn ==
    /\ pc = "par"
    /\ JoinedAll
    /\ pc' = "done"
    /\ result' = ResultOf(pc', result)
    /\ pass_num' = pass_num + 1
    /\ UNCHANGED <<cfgVars, content, exists, file_size, patterns,
                   bytes_written, chunk_size, tasks, concurrency_limit, permits,
                   buffer_size, max_buffers, buffers, histVars, poolVars, sideVars, orchVars>>

ParNext ==
    \/ ParCall
    \/ \E i \in TaskIds : Acquire(i)
    \/ \E i \in TaskIds : ChunkStart(i)
    \/ \E i \in TaskIds : ChunkWrite(i)
    \/ \E i \in TaskIds : ChunkFinish(i)
    \/ \E i \in TaskIds : TaskJoin(i)
    \/ \E i \in TaskIds : ParallelFail(i)
    \/ ParReturn

ParSpec == ParInit /\ [][ParNext]_vars

-----------------------------------------------------------------------------
(* PoolSpec: BufferPool::new(buffer_size, max_buffers) shared by callers   *)
(* that take buffers, give them back, and give back vectors of their own.  *)

\* two concurrent tasks share the pool
Callers == {1, 2}

PoolInit ==
    /\ mode = "Fast"
    /\ verify = FALSE
    /\ storage_type = [kind |-> "Unknown", size |-> 0]
    /\ content = <<>>
    /\ exists = FALSE
    /\ pc = "pool"
    /\ result = "none"
    /\ file_size = 0
    /\ patterns = <<>>
    /\ pass_num = 0
    /\ bytes_written = 0
    /\ chunk_size = 0
    /\ tasks = <<>>
    /\ concurrency_limit = 0
    /\ permits = 0
    /\ buffer_size \in 1..MaxPoolBufSize
    /\ max_buffers \in 0..MaxPoolCap
    /\ buffers = <<>>
    /\ pass_bytes = 0
    /\ full_sync = FALSE
    /\ io_failed = -1
    /\ verified = FALSE
    /\ post_ran = FALSE
    /\ filesystem_type = NoFilesystem
    /\ verdict = "none"
    /\ steps = <<>>
    /\ hooks = NoHooks
    /\ SideIdle
    /\ held = [t \in Callers |-> {}]
    /\ next_id = 0
    /\ last_op = NoOp

wipeVars == <<cfgVars, content, exists, pc, result, file_size, patterns,
              pass_num, bytes_written, chunk_size, tasks, concurrency_limit,
              permits, buffer_size, max_buffers, histVars, orchVars>>
nonPoolVars == <<wipeVars, sideVars>>

\* caller t calls get_buffer
PoolGet(t) ==
    /\ pc = "pool"
    /\ Cardinality(held[t]) < MaxHeld
    /\ buffers # <<>> \/ next_id < MaxIds
    /\ LET g == get_buffer(buffers, buffer_size, next_id)
       IN /\ buffers' = g.rest
          /\ held' = [held EXCEPT ![t] = @ \cup {g.buf}]
          /\ next_id' = IF buffers = <<>> THEN next_id + 1 ELSE next_id
          /\ last_op' = [op |-> "get", pre |-> buffers, buf |-> g.buf, caller |-> t]
    /\ UNCHANGED nonPoolVars

\* caller t calls return_buffer with a buffer it owns
PoolReturn(t) ==
    /\ pc = "pool"
    /\ \E b \in held[t] :
          /\ buffers' = return_buffer(buffers, buffer_size, max_buffers, b)
          /\ held' = [held EXCEPT ![t] = @ \ {b}]
          /\ last_op' = [op |-> "return", pre |-> buffers, buf |-> b, caller |-> t]
    /\ UNCHANGED <<nonPoolVars, next_id>>

\* caller t makes a vector of its own, of any length
PoolOwnVec(t) ==
    /\ pc = "pool"
    /\ Cardinality(held[t]) < MaxHeld
    /\ next_id < MaxIds
    /\ \E len \in 0..(MaxPoolBufSize + 1) :
          /\ held' = [held EXCEPT ![t] = @ \cup {AllocBuffer(len, next_id)}]
          /\ last_op' = [op |-> "own", pre |-> buffers,
                         buf |-> AllocBuffer(len, next_id), caller |-> t]
    /\ next_id' = next_id + 1
    /\ UNCHANGED <<nonPoolVars, buffers>>

PoolNext ==
    \/ \E t \in Callers : PoolGet(t)
    \/ \E t \in Callers : PoolReturn(t)
    \/ \E t \in Callers : PoolOwnVec(t)

PoolSpec == PoolInit /\ [][PoolNext]_vars

-----------------------------------------------------------------------------
(* Properties *)

\* a pass has completed and the next one has not started
BetweenPasses == pc = "loop" /\ pass_num >= 1

\* the pattern of the pass that completed last
LastPattern == patterns[pass_num]

\* every byte of the file is b
AllBytes(b) == \A i \in 1..Len(content) : content[i] = b

\* C1: pattern fidelity.  Right after a successful pass whose pattern is
\* Fixed(b), Zeros or Ones, and before the next pass starts, the file reads
\* as file_size bytes, every one equal to b / 0x00 / 0xFF, whichever writer
\* path ran the pass.
C1_PatternFidelity ==
    (BetweenPasses /\ LastPattern.kind # "Random")
        => /\ Len(content) = file_size
           /\ AllBytes(PatternByte(LastPattern))

\* C2: concurrent writer correctness.  When parallel_wipe(path, Fixed(b),
\* file_size, chunk_size) returns Ok, every byte of [0, file_size) reads
\* back as b, for any chunk_size and any buffer size of the AsyncWiper.
C2_ParallelWipeCorrect ==
    (pc = "done" /\ result = "Ok" /\ patterns[1].kind = "Fixed")
        => /\ Len(content) = file_size
           /\ AllBytes(patterns[1].byte)

\* C3: byte coverage.  In a wipe that reaches unlink, the pass completed
\* last wrote exactly file_size bytes, and the file was never extended.
C3_ByteCoverage ==
    (pc = "post" /\ pass_num >= 1)
        => /\ pass_bytes = file_size
           /\ Len(content) = file_size

\* C4: write-error policy.  Once an open, seek, write or sync has failed in
\* pass k, no later pass is started, the verifier and the post-hook do not
\* run, the path still resolves, and the wipe does not return Ok: when it
\* returns, it returns Err.
C4_WriteErrorPolicy ==
    io_failed # -1
        => /\ pass_num = io_failed
           /\ pc \in {"par", "failed"}
           /\ pc = "failed" => result = "Err"
           /\ result # "Ok"
           /\ ~verified
           /\ ~post_ran
           /\ exists

\* C4 witness: the wipe has returned the error of a failure in its second
\* pass or later, and the file is still there.
C4_Witness ==
    /\ io_failed >= 1
    /\ pc = "failed"
    /\ result = "Err"
    /\ exists

\* C5: cancellation.  Once parallel_wipe has returned the error of a failed
\* chunk task, no chunk task of that pass writes to the file any more.
C5_NoWriteAfterError ==
    [][pc = "failed" => content' = content]_vars

\* C6: durability ordering.  When a pass is over, on either path, a full
\* sync (sync_all) has been issued after the last byte of the pass was
\* written, so it precedes the first write of the next pass.
C6_DurabilityOrdering ==
    BetweenPasses => full_sync

\* C7: passes are strictly serial.  While no I/O step has failed, a chunk
\* task that is not yet joined exists only inside its own parallel pass:
\* when the orchestrator is anywhere else (about to start the next pass,
\* or in it on the streamed path), every chunk write has completed.
C7_PassesSerial ==
    (io_failed = -1 /\ pc # "par")
        => \A i \in TaskIds : tasks[i].st = "joined"

\* C7 witness: a parallel pass of two chunks is over and another pass is
\* about to start.
C7_Witness ==
    /\ BetweenPasses
    /\ pass_num < Len(patterns)
    /\ Len(tasks) >= 2
    /\ io_failed = -1

\* C8: concurrency envelope.  The semaphore capacity is max(num_cpus, 4);
\* at every moment the chunk tasks holding a permit, and the chunk closures
\* running, number at most that capacity, however many chunks there are.
C8_ConcurrencyEnvelope ==
    /\ concurrency_limit \in {Max(n, MIN_CONCURRENCY) : n \in 1..MaxCpus}
    /\ permits >= 0
    /\ permits + Cardinality(PermitHolders) = concurrency_limit
    /\ Cardinality(PermitHolders) <= concurrency_limit
    /\ Cardinality(RunningClosures) <= concurrency_limit

\* C8 witness: more chunks than permits, every permit taken, a task waiting.
C8_Witness ==
    /\ pc = "par"
    /\ Len(tasks) > concurrency_limit
    /\ Cardinality(PermitHolders) = concurrency_limit
    /\ \E i \in TaskIds : tasks[i].st = "waiting"

\* C9: buffer pool bound.  Over any interleaving of get_buffer and
\* return_buffer calls, the pool never holds more than max_buffers buffers.
C9_PoolBound ==
    Len(buffers) <= max_buffers

\* C9 witness: a buffer of the right length was given back to a full pool
\* and dropped.
C9_Witness ==
    /\ last_op.op = "return"
    /\ last_op.buf.len = buffer_size
    /\ max_buffers >= 1
    /\ Len(last_op.pre) = max_buffers
    /\ buffers = last_op.pre

\* the buffers the callers own
HeldBuffers == UNION {held[t] : t \in DOMAIN held}

\* C10: buffer pool acquire/release.  Every pooled buffer has length
\* buffer_size and is owned by no caller; get_buffer hands out a buffer of
\* length buffer_size, the front of the queue when there is one and a fresh
\* allocation only when the queue is empty; return_buffer appends the buffer
\* exactly when the pool has room and the length is buffer_size, so a stored
\* buffer is handed out again by a later get_buffer, in FIFO order.
C10_PoolAcquireRelease ==
    /\ \A k \in 1..Len(buffers) :
          /\ buffers[k].len = buffer_size
          /\ buffers[k] \notin HeldBuffers
          /\ \A j \in 1..Len(buffers) : buffers[j].id = buffers[k].id => j = k
    /\ last_op.op = "get"
          => /\ last_op.buf.len = buffer_size
             /\ last_op.buf \in held[last_op.caller]
             /\ last_op.pre # <<>>
                   => /\ last_op.buf = Head(last_op.pre)
                      /\ buffers = Tail(last_op.pre)
             /\ last_op.pre = <<>>
                   => /\ last_op.buf.id = next_id - 1
                      /\ buffers = <<>>
    /\ last_op.op = "return"
          => buffers = IF Len(last_op.pre) < max_buffers
                          /\ last_op.buf.len = buffer_size
                       THEN Append(last_op.pre, last_op.buf)
                       ELSE last_op.pre

\* C10 witness: get_buffer has just handed out a buffer that an earlier
\* return_buffer stored, while a caller owns a vector of another length.
C10_Witness ==
    /\ last_op.op = "get"
    /\ last_op.pre # <<>>
    /\ \E b \in HeldBuffers : b.len # buffer_size

-----------------------------------------------------------------------------
(* Claims about the orchestrator, FileWiper::wipe *)

\* wipe got past its stat: a pattern sequence was selected (it is never empty)
WipeStarted == patterns # <<>>

\* C11: whenever wipe has returned Ok the path no longer resolves, and the
\* path of a wipe that got started is removed only when every pass of the
\* sequence has completed without an I/O error.
C11_UnlinkPostCondition ==
    /\ result = "Ok" => ~exists
    /\ (WipeStarted /\ ~exists) =>
          /\ pass_num = Len(patterns)
          /\ io_failed = -1
          /\ result = "Ok"

\* a file with content was wiped by a sequence of several passes and unlinked
C11_Witness ==
    /\ result = "Ok"
    /\ ~exists
    /\ file_size > 0
    /\ pass_num = Len(patterns)
    /\ pass_num > 1

\* k times the step "pass"
Passes(k) == [i \in 1..k |-> "pass"]

\* the order of steps that the orchestrator is described to follow for a
\* sequence of k passes
DescribedSteps(k, with_verify) ==
    <<"stat", "medium_probe", "fs_probe", "select", "pre_hook">>
        \o Passes(k)
        \o (IF with_verify THEN <<"verify">> ELSE <<>>)
        \o <<"post_hook", "metadata_wipe", "unlink">>

\* C12: for one path the steps run in the order stat, medium probe,
\* filesystem probe, pattern selection, pre-hook, the passes, the verifier if
\* verify is set, post-hook, metadata wiper, unlink; and the file is never
\* unlinked before the metadata wiper has run.
C12_OrchestratorOrder ==
    /\ result = "Ok" => steps = DescribedSteps(Len(patterns), verify)
    /\ \A i \in 1..Len(steps) :
          steps[i] = "unlink" =>
              \E j \in 1..(i - 1) : steps[j] = "metadata_wipe"

-----------------------------------------------------------------------------
(* Claims about the pattern sequences *)

PatternNames(seq) == [i \in 1..Len(seq) |-> name(seq[i])]

\* C13: create_pattern_sequence returns exactly [random] for Fast, exactly
\* [random, zeros, random] for Standard and exactly [random, 0x55, 0xAA,
\* random, ones, zeros, random] for Paranoid, in that order, and never an
\* empty sequence.
C13_ModeSequences ==
    LET seq == create_pattern_sequence(mode) IN
    /\ Len(seq) >= 1
    /\ mode = "Fast" => PatternNames(seq) = <<"random">>
    /\ mode = "Standard" => PatternNames(seq) = <<"random", "zeros", "random">>
    /\ mode = "Paranoid" =>
          /\ PatternNames(seq) = <<"random", "0x55", "0xAA", "random", "ones",
                           "zeros", "random">>
          /\ seq[2].byte = 85
          /\ seq[3].byte = 170

\* a Paranoid wipe ran the seven passes of its sequence
C13_Witness ==
    /\ mode = "Paranoid"
    /\ patterns = create_pattern_sequence(mode)
    /\ pass_num = 7
    /\ result = "Ok"

\* C14: when the detected filesystem is copy-on-write and its optimizer
\* recommends more passes than the mode's sequence has, the sequence the
\* orchestrator executes has at least the recommended number of passes, and a
\* wipe that returns Ok has run at least that many.
C14_CowPassFloor ==
    (/\ WipeStarted
     /\ supports_cow(filesystem_type)
     /\ get_recommended_passes(filesystem_type)
            > Len(create_pattern_sequence(mode)))
        => /\ Len(patterns) >= get_recommended_passes(filesystem_type)
           /\ result = "Ok" =>
                 pass_num >= get_recommended_passes(filesystem_type)

\* C15: the verifier runs only if config.verify is set, and whichever of its
\* two findings it makes (only zero bytes, or a byte that is not zero) the
\* wipe goes on: it returns only after the post-hook and the unlink have run,
\* and then it returns Ok unless the unlink itself failed and left the path.
C15_VerificationAdvisory ==
    /\ verified => verify
    /\ verdict # "none" => pc \in {"verified", "post", "done", "failed"}
    /\ (verdict # "none" /\ result # "none") =>
          /\ post_ran
          /\ steps[Len(steps)] = "unlink"
          /\ result \in {"Ok", "Err"}
          /\ result = "Err" => exists

\* the verifier found only zero bytes in a file with content, and the wipe
\* still unlinked the path and returned Ok
C15_Witness ==
    /\ verify
    /\ verdict = "zeros_only"
    /\ file_size > 0
    /\ post_ran
    /\ ~exists
    /\ result = "Ok"

-----------------------------------------------------------------------------
(* MetaSpec: one call of MetadataWiper::wipe_metadata,                      *)
(* src/src/security/metadata.rs:32-79                                       *)

\* the largest rename_iterations tried
MaxRenames == 4

\* the draws of the random generator for one name
MaxRandomId == 2
RandomIds == 1..MaxRandomId

\* "p" is the directory that holds the path, "q" is another directory
Dirs == {"p", "q"}

\* the name the path has when wipe_metadata is called
OrigName == [len |-> 0, id |-> 0]

\* generate_random_name: 16 characters, then 8, then 1
name_length(iteration) ==
    CASE iteration = 0 -> 16
      [] iteration = 1 -> 8
      [] OTHER -> 1

NameLengths == {name_length(i) : i \in 0..MaxRenames}
Names == {OrigName} \cup [len : NameLengths, id : RandomIds]

\* a path: the directory and the final component
join(d, n) == [dir |-> d, name |-> n]
parent(path) == path.dir
NoPath == [dir |-> "none", name |-> OrigName]

\* a random name placed in some other directory
generate_random_name_elsewhere(current_path, iteration, r) ==
    join("q", [len |-> name_length(iteration), id |-> r])

\* generate_random_name: the random name of this iteration joined to the
\* parent of the current path; r is the draw of the generator
generate_random_name(current_path, iteration, r) ==
    join(parent(current_path), [len |-> name_length(iteration), id |-> r])

\* what a name resolves to
NoEntry == [who |-> "none", kind |-> "none"]
Target(k) == [who |-> "target", kind |-> k]
Other(k) == [who |-> "other", kind |-> k]
Kinds == {"file", "dir"}

Lookup(ns, path) == ns[path.dir][path.name]

\* rename(2) can succeed: the source resolves, and a destination that
\* resolves is of the same kind as the source
CanRename(ns, src, dst) ==
    /\ Lookup(ns, src) # NoEntry
    /\ (Lookup(ns, dst) # NoEntry /\ dst # src)
          => Lookup(ns, dst).kind = Lookup(ns, src).kind

\* rename(2) that succeeded: the destination name now resolves to the source's
\* entity, replacing what it resolved to, and the source name is gone
rename(ns, src, dst) ==
    IF src = dst THEN ns
    ELSE LET moved == [ns EXCEPT ![dst.dir][dst.name] = Lookup(ns, src)]
         IN  [moved EXCEPT ![src.dir][src.name] = NoEntry]

\* remove_file or remove_dir that succeeded
remove(ns, path) == [ns EXCEPT ![path.dir][path.name] = NoEntry]


AfterRenameAbort(ok) == IF ok THEN "rename" ELSE "done"

\* the rename loop: after a rename that succeeded the loop goes on, after one
\* that failed it executes break and control reaches secure_unlink
AfterRename(ok) == IF ok THEN "rename" ELSE "unlink"

MetaInit ==
    /\ mode = "Fast"
    /\ verify = FALSE
    /\ storage_type = [kind |-> "Unknown", size |-> 0]
    /\ content = <<>>
    /\ exists = FALSE
    /\ pc = "idle"
    /\ result = "none"
    /\ file_size = 0
    /\ patterns = <<>>
    /\ pass_num = 0
    /\ bytes_written = 0
    /\ chunk_size = 0
    /\ tasks = <<>>
    /\ concurrency_limit = 0
    /\ permits = 0
    /\ buffer_size = 0
    /\ max_buffers = 0
    /\ buffers = <<>>
    /\ pass_bytes = 0
    /\ full_sync = FALSE
    /\ io_failed = -1
    /\ verified = FALSE
    /\ post_ran = FALSE
    /\ filesystem_type = NoFilesystem
    /\ verdict = "none"
    /\ steps = <<>>
    /\ hooks = NoHooks
    /\ held = <<>>
    /\ next_id = 0
    /\ last_op = NoOp
    /\ batch = Idle
    /\ rv = Idle
    /\ probe = Idle
    /\ mw \in [rename_iterations : 0..MaxRenames,
               timestamp_randomization : BOOLEAN,
               clear_extended_attributes : BOOLEAN]
    /\ \E t \in {NoEntry} \cup {Target(k) : k \in Kinds},
          o \in {NoEntry} \cup {Other(k) : k \in Kinds} :
          dirs = [d \in Dirs |->
                    [n \in Names |->
                        IF d = "p" /\ n = OrigName THEN t
                        ELSE IF d = "p" /\ n = [len |-> 1, id |-> 1] THEN o
                        ELSE NoEntry]]
    /\ mcall = [pc |-> "timestamps",
                path |-> join("p", OrigName),
                current_path |-> join("p", OrigName),
                iteration |-> 0,
                result |-> "none",
                ts_failed |-> FALSE,
                rename_failed |-> FALSE,
                renames |-> <<>>,
                unlink_path |-> NoPath,
                unlink_ok |-> FALSE,
                before |-> dirs]      \* history: the directories at the call

\* everything but the metadata wiper and its directories
coreVars == <<wipeVars, buffers, poolVars, batch, rv, probe>>

\* step 1: randomize_timestamps opens the path; a failure is logged
RandomizeTimestamps ==
    /\ mcall.pc = "timestamps"
    /\ IF mw.timestamp_randomization
       THEN \E ok \in BOOLEAN :
               /\ ok => Lookup(dirs, mcall.current_path) # NoEntry
               /\ mcall' = [mcall EXCEPT !.pc = "xattrs", !.ts_failed = ~ok]
       ELSE mcall' = [mcall EXCEPT !.pc = "xattrs"]
    /\ UNCHANGED <<coreVars, mw, dirs>>

\* step 2: clear_extended_attributes returns Ok(())
ClearExtendedAttributes ==
    /\ mcall.pc = "xattrs"
    /\ mcall' = [mcall EXCEPT !.pc = "rename"]
    /\ UNCHANGED <<coreVars, mw, dirs>>

\* step 3, one iteration of the loop: a random name, then fs::rename
RenameIteration ==
    /\ mcall.pc = "rename"
    /\ mcall.iteration < mw.rename_iterations
    /\ \E r \in RandomIds, ok \in BOOLEAN :
          LET new_path == generate_random_name(mcall.current_path,
                                               mcall.iteration, r)
              next == AfterRename(ok)
          IN  /\ ok => CanRename(dirs, mcall.current_path, new_path)
              /\ dirs' = IF ok THEN rename(dirs, mcall.current_path, new_path)
                         ELSE dirs
              /\ mcall' = [mcall EXCEPT
                    !.pc = next,
                    !.current_path = IF ok THEN new_path ELSE @,
                    !.iteration = IF ok THEN @ + 1 ELSE @,
                    !.renames = IF ok THEN Append(@, new_path) ELSE @,
                    !.rename_failed = ~ok,
                    !.result = IF next = "done" THEN "Err" ELSE @]
    /\ UNCHANGED <<coreVars, mw>>

\* the loop has run rename_iterations times
RenameLoopExit ==
    /\ mcall.pc = "rename"
    /\ ~(mcall.iteration < mw.rename_iterations)
    /\ mcall' = [mcall EXCEPT !.pc = "unlink"]
    /\ UNCHANGED <<coreVars, mw, dirs>>

\* step 4: secure_unlink stats the current path and removes it; either call
\* may fail, and its error is the result of wipe_metadata
SecureUnlink ==
    /\ mcall.pc = "unlink"
    /\ \E ok \in BOOLEAN :
          /\ ok => Lookup(dirs, mcall.current_path) # NoEntry
          /\ dirs' = IF ok THEN remove(dirs, mcall.current_path) ELSE dirs
          /\ mcall' = [mcall EXCEPT
                !.pc = "done",
                !.unlink_path = mcall.current_path,
                !.unlink_ok = ok,
                !.result = IF ok THEN "Ok" ELSE "Err"]
    /\ UNCHANGED <<coreVars, mw>>

MetaNext ==
    \/ RandomizeTimestamps
    \/ ClearExtendedAttributes
    \/ RenameIteration
    \/ RenameLoopExit
    \/ SecureUnlink

MetaSpec == MetaInit /\ [][MetaNext]_vars


\* the path the last rename that succeeded gave the entity, the path of the
\* call if none did
LastRenamed ==
    IF mcall.renames = <<>> THEN mcall.path
    ELSE mcall.renames[Len(mcall.renames)]

\* C16: a failure of the timestamp or xattr step does not stop the later
\* steps, a rename failure ends the rename loop without ending the call, the
\* call returns only after the unlink was attempted, on the last successfully
\* renamed path, and it returns an error if and only if that unlink failed.
C16_MetadataBestEffort ==
    /\ mcall.result # "none" =>
          /\ mcall.pc = "done"
          /\ mcall.unlink_path # NoPath
    /\ mcall.rename_failed =>
          /\ mcall.pc \in {"unlink", "done"}
          /\ Len(mcall.renames) = mcall.iteration
          /\ mcall.iteration < mw.rename_iterations
    /\ mcall.unlink_path # NoPath => mcall.unlink_path = LastRenamed
    /\ mcall.pc = "done" =>
          /\ mcall.result \in {"Ok", "Err"}
          /\ mcall.result = "Err" <=> ~mcall.unlink_ok

\* the timestamp step failed, one rename succeeded and the next failed, and
\* the call still unlinked the renamed path and returned Ok
C16_Witness ==
    /\ mcall.pc = "done"
    /\ mcall.ts_failed
    /\ mcall.rename_failed
    /\ Len(mcall.renames) >= 1
    /\ mcall.unlink_ok
    /\ mcall.result = "Ok"
    /\ Lookup(dirs, mcall.unlink_path) = NoEntry

\* C17: after every rename iteration and at the unlink, whichever renames
\* failed, the path the wiper tracks lies in the parent directory of the path
\* given to wipe_metadata, and so does the entity itself, under that path.
C17_RenamePathStability ==
    /\ parent(mcall.current_path) = parent(mcall.path)
    /\ \A d \in Dirs, n \in Names :
          dirs[d][n].who = "target" =>
              /\ d = parent(mcall.path)
              /\ join(d, n) = mcall.current_path
    /\ mcall.unlink_path # NoPath =>
          parent(mcall.unlink_path) = parent(mcall.path)

\* three renames succeeded, the fourth failed, and the entity was unlinked
C17_Witness ==
    /\ mcall.pc = "done"
    /\ Len(mcall.renames) >= 3
    /\ mcall.rename_failed
    /\ mcall.unlink_ok
    /\ mcall.unlink_path.name.len = 1

-----------------------------------------------------------------------------
(* BatchSpec: one call of Amaterasu::wipe_files, src/src/lib.rs:101-120     *)

\* the longest list of paths tried
MaxPaths == 4

\* a driver that goes on to the next path whatever config.force is
OnWipeErrorContinue(force) == "loop"

\* the body of `if let Err(e) = self.wipe_file(path).await`: with force the
\* error is printed and the loop goes on, without it the error is returned
OnWipeError(force) == IF force THEN "loop" ELSE "done"

BatchInit ==
    /\ mode = "Fast"
    /\ verify = FALSE
    /\ storage_type = [kind |-> "Unknown", size |-> 0]
    /\ content = <<>>
    /\ exists = FALSE
    /\ pc = "idle"
    /\ result = "none"
    /\ file_size = 0
    /\ patterns = <<>>
    /\ pass_num = 0
    /\ bytes_written = 0
    /\ chunk_size = 0
    /\ tasks = <<>>
    /\ concurrency_limit = 0
    /\ permits = 0
    /\ buffer_size = 0
    /\ max_buffers = 0
    /\ buffers = <<>>
    /\ pass_bytes = 0
    /\ full_sync = FALSE
    /\ io_failed = -1
    /\ verified = FALSE
    /\ post_ran = FALSE
    /\ filesystem_type = NoFilesystem
    /\ verdict = "none"
    /\ steps = <<>>
    /\ hooks = NoHooks
    /\ held = <<>>
    /\ next_id = 0
    /\ last_op = NoOp
    /\ mw = Idle
    /\ mcall = Idle
    /\ dirs = <<>>
    /\ rv = Idle
    /\ probe = Idle
    /\ \E n \in 0..MaxPaths, f \in BOOLEAN :
          \E bad \in SUBSET (1..n) :
             batch = [pc |-> "loop",
                      force |-> f,
                      len |-> n,          \* paths.len()
                      fails |-> bad,      \* the paths whose wipe_file fails
                      next |-> 1,         \* position of the iterator
                      attempted |-> <<>>, \* paths handed to wipe_file
                      result |-> "none",
                      error |-> 0]        \* the path whose error was
                                          \* returned, -1 for the cleanup

\* one iteration of the for loop: wipe_file on the next path
WipeNextPath ==
    /\ batch.pc = "loop"
    /\ batch.next <= batch.len
    /\ LET i == batch.next
           after == IF i \in batch.fails THEN OnWipeError(batch.force)
                    ELSE "loop"
       IN  batch' = [batch EXCEPT
               !.attempted = Append(@, i),
               !.next = i + 1,
               !.pc = after,
               !.result = IF after = "done" THEN "Err" ELSE @,
               !.error = IF after = "done" THEN i ELSE @]
    /\ UNCHANGED <<wipeVars, buffers, poolVars, metaVars, rv, probe>>

\* after the loop: cleanup_empty_directories, whose error is returned only
\* without force
CleanupEmptyDirectories ==
    /\ batch.pc = "loop"
    /\ batch.next > batch.len
    /\ \E ok \in BOOLEAN :
          LET err == ~ok /\ ~batch.force IN
          batch' = [batch EXCEPT
              !.pc = "done",
              !.result = IF err THEN "Err" ELSE "Ok",
              !.error = IF err THEN -1 ELSE @]
    /\ UNCHANGED <<wipeVars, buffers, poolVars, metaVars, rv, probe>>

BatchNext ==
    \/ WipeNextPath
    \/ CleanupEmptyDirectories

BatchSpec == BatchInit /\ [][BatchNext]_vars

\* the first path of the list whose wipe fails, 0 if none does
FirstFailing ==
    IF batch.fails = {} THEN 0
    ELSE CHOOSE i \in batch.fails : \A j \in batch.fails : i <= j

\* C18: without force the first path whose wipe fails makes wipe_files
\* return that path's error and no later path is wiped; with force every path
\* of the list is attempted and wipe_files returns Ok.
C18_BatchErrorPolicy ==
    /\ (~batch.force /\ FirstFailing # 0) =>
          /\ Len(batch.attempted) <= FirstFailing
          /\ batch.pc = "done" =>
                /\ batch.result = "Err"
                /\ batch.error = FirstFailing
                /\ batch.attempted = [k \in 1..FirstFailing |-> k]
    /\ (batch.force /\ batch.pc = "done") =>
          /\ batch.attempted = [k \in 1..batch.len |-> k]
          /\ batch.result = "Ok"

\* without force the second of three paths failed: its error was returned
\* and the third path was not touched
C18_Witness ==
    /\ ~batch.force
    /\ batch.len = 3
    /\ FirstFailing = 2
    /\ batch.pc = "done"
    /\ batch.result = "Err"
    /\ batch.attempted = <<1, 2>>

-----------------------------------------------------------------------------
(* VerifySpec: one call of ReadbackVerifier::verify,                        *)
(* src/src/security/mod.rs:12-54                                            *)

\* the longest file and the longest expected pattern tried
MaxVerLen == 4
MaxPatLen == 3

\* the length of the read buffer, scaled down from the program's 8192
ReadWindow == 2

\* the byte values of the files and patterns tried
VerBytes == {0, 85}

SeqsUpTo(S, n) == UNION {[1..k -> S] : k \in 0..n}

\* expected_pattern: None
NoPattern == [some |-> FALSE, bytes |-> <<>>]
Some(p) == [some |-> TRUE, bytes |-> p]

\* an index that restarts the pattern at every read
PatternIdxNoPhase(bytes_read, i, pattern_len) == i % pattern_len

\* pattern_idx for the byte at position i (from 0) of a chunk read at offset
\* bytes_read: start_offset = bytes_read % pattern_len, then
\* (start_offset + i) % pattern_len
PatternIdx(bytes_read, i, pattern_len) ==
    ((bytes_read % pattern_len) + i) % pattern_len

\* the comparison loops over chunk[..n]: TRUE when no byte makes verify
\* return Ok(false)
ChunkMatches(chunk, expected, bytes_read) ==
    IF expected.some
    THEN \A i \in 0..(Len(chunk) - 1) :
            chunk[i + 1] =
                expected.bytes[PatternIdx(bytes_read, i,
                                          Len(expected.bytes)) + 1]
    ELSE \A i \in 1..Len(chunk) : chunk[i] = 0

\* what read(2) delivers: n bytes of the file from offset off
ReadAt(c, off, n) == [i \in 1..n |-> c[off + i]]

VerifyInit ==
    /\ mode = "Fast"
    /\ verify = FALSE
    /\ storage_type = [kind |-> "Unknown", size |-> 0]
    /\ content \in SeqsUpTo(VerBytes, MaxVerLen)
    /\ exists = TRUE
    /\ pc = "idle"
    /\ result = "none"
    /\ file_size = 0
    /\ patterns = <<>>
    /\ pass_num = 0
    /\ bytes_written = 0
    /\ chunk_size = 0
    /\ tasks = <<>>
    /\ concurrency_limit = 0
    /\ permits = 0
    /\ buffer_size = 0
    /\ max_buffers = 0
    /\ buffers = <<>>
    /\ pass_bytes = 0
    /\ full_sync = FALSE
    /\ io_failed = -1
    /\ verified = FALSE
    /\ post_ran = FALSE
    /\ filesystem_type = NoFilesystem
    /\ verdict = "none"
    /\ steps = <<>>
    /\ hooks = NoHooks
    /\ held = <<>>
    /\ next_id = 0
    /\ last_op = NoOp
    /\ mw = Idle
    /\ mcall = Idle
    /\ dirs = <<>>
    /\ batch = Idle
    /\ probe = Idle
    /\ \E e \in {NoPattern} \cup
                {Some(p) : p \in SeqsUpTo(VerBytes, MaxPatLen) \ {<<>>}} :
          rv = [pc |-> "open",
                expected |-> e,
                file_size |-> 0,
                bytes_read |-> 0,
                reads |-> <<>>,       \* history: the n of every read
                result |-> "none"]

\* File::open and std::fs::metadata: either may fail
VerifyOpen ==
    /\ rv.pc = "open"
    /\ \E ok \in BOOLEAN :
          rv' = IF ok
                THEN [rv EXCEPT !.pc = "loop", !.file_size = Len(content)]
                ELSE [rv EXCEPT !.pc = "done", !.result = "Err"]
    /\ UNCHANGED <<wipeVars, buffers, poolVars, metaVars, batch, probe>>

\* one iteration of the while loop. read may fail, or deliver any n from 1 to
\* bytes_to_read (the file holds file_size bytes, so n = 0, end of file, does
\* not occur before bytes_read reaches file_size)
VerifyRead ==
    /\ rv.pc = "loop"
    /\ rv.bytes_read < rv.file_size
    /\ LET bytes_to_read == Min(ReadWindow, rv.file_size - rv.bytes_read) IN
       \/ rv' = [rv EXCEPT !.pc = "done", !.result = "Err"]
       \/ \E n \in 1..bytes_to_read :
             LET chunk == ReadAt(content, rv.bytes_read, n) IN
             IF ChunkMatches(chunk, rv.expected, rv.bytes_read)
             THEN rv' = [rv EXCEPT !.bytes_read = @ + n,
                                   !.reads = Append(@, n)]
             ELSE rv' = [rv EXCEPT !.pc = "done",
                                   !.reads = Append(@, n),
                                   !.result = "false"]
    /\ UNCHANGED <<wipeVars, buffers, poolVars, metaVars, batch, probe>>

\* the loop condition fails: Ok(true), written "true"
VerifyReturn ==
    /\ rv.pc = "loop"
    /\ ~(rv.bytes_read < rv.file_size)
    /\ rv' = [rv EXCEPT !.pc = "done", !.result = "true"]
    /\ UNCHANGED <<wipeVars, buffers, poolVars, metaVars, batch, probe>>

VerifyNext ==
    \/ VerifyOpen
    \/ VerifyRead
    \/ VerifyReturn

VerifySpec == VerifyInit /\ [][VerifyNext]_vars

\* every byte of the file is the byte of the repeated pattern at its offset,
\* or is 0 when no pattern is expected
FileMatches ==
    IF rv.expected.some
    THEN \A i \in 0..(Len(content) - 1) :
            content[i + 1] =
                rv.expected.bytes[(i % Len(rv.expected.bytes)) + 1]
    ELSE \A i \in 1..Len(content) : content[i] = 0

\* C19: for every file content and every expected pattern of length L >= 1,
\* verify returns true exactly when every byte at offset i equals
\* pattern[i mod L], whatever the lengths of the reads; with no expected
\* pattern it returns true exactly when every byte of the file is 0.
C19_ReadbackResult ==
    (rv.pc = "done" /\ rv.result \in {"true", "false"})
        => (rv.result = "true" <=> FileMatches)

\* a file of four bytes matched a pattern of three bytes with two values,
\* read in three reads, one of them short
C19_Witness ==
    /\ rv.pc = "done"
    /\ rv.result = "true"
    /\ rv.expected.some
    /\ Len(rv.expected.bytes) = 3
    /\ rv.expected.bytes[1] # rv.expected.bytes[2]
    /\ Len(content) = 4
    /\ Len(rv.reads) >= 3

-----------------------------------------------------------------------------
(* Claims about files of size 0 *)

\* C20: for a file of size 0 the orchestrator runs no pass: the file is not
\* opened for writing and no write or sync is issued for any pattern of the
\* sequence; the wipe goes directly to the unlink stage, after which the path
\* no longer resolves.
C20_ZeroSizeSkipped ==
    (WipeStarted /\ file_size = 0) =>
        /\ pc # "stream"
        /\ ~full_sync
        /\ io_failed = -1
        /\ \A i \in 1..Len(steps) : steps[i] # "pass"
        /\ result = "Ok" => ~exists

-----------------------------------------------------------------------------
(* Claims about the chunks of parallel_wipe *)

\* the chunks that hold the byte at offset b
ChunksHolding(b) ==
    {i \in TaskIds : tasks[i].off <= b /\ b < tasks[i].off + tasks[i].len}

\* C21: for file_size >= 1 and chunk_size >= 1 the (start_offset,
\* current_chunk_size) pairs of parallel_wipe are pairwise disjoint, leave no
\* gap and cover exactly [0, file_size); every chunk but the last has size
\* chunk_size and the last has the remainder, between 1 and chunk_size.
C21_ChunkPartition ==
    (pc \in {"par", "failed", "done"} /\ file_size >= 1 /\ chunk_size >= 1) =>
        /\ Len(tasks) >= 1
        /\ tasks[1].off = 0
        /\ \A i \in TaskIds :
              /\ i < Len(tasks) =>
                    /\ tasks[i].len = chunk_size
                    /\ tasks[i + 1].off = tasks[i].off + tasks[i].len
              /\ i = Len(tasks) =>
                    /\ tasks[i].len >= 1
                    /\ tasks[i].len <= chunk_size
                    /\ tasks[i].off + tasks[i].len = file_size
        /\ \A b \in 0..(file_size - 1) : Cardinality(ChunksHolding(b)) = 1
        /\ \A i \in TaskIds :
              \A b \in tasks[i].off..(tasks[i].off + tasks[i].len - 1) :
                 b < file_size

\* a file of three or more chunks whose last chunk is a short remainder
C21_Witness ==
    /\ pc = "par"
    /\ chunk_size >= 2
    /\ Len(tasks) >= 3
    /\ tasks[Len(tasks)].len < chunk_size
    /\ tasks[Len(tasks)].off + tasks[Len(tasks)].len = file_size

-----------------------------------------------------------------------------
(* FsProbeSpec: detect_filesystem_type as wipe calls it,                    *)
(* src/src/filesystem/detector.rs:7-34 and src/src/io/mod.rs:27-30          *)

FsProbeInit ==
    /\ mode = "Fast"
    /\ verify = FALSE
    /\ storage_type = [kind |-> "Unknown", size |-> 0]
    /\ content = <<>>
    /\ exists = TRUE
    /\ pc = "idle"
    /\ result = "none"
    /\ file_size = 0
    /\ patterns = <<>>
    /\ pass_num = 0
    /\ bytes_written = 0
    /\ chunk_size = 0
    /\ tasks = <<>>
    /\ concurrency_limit = 0
    /\ permits = 0
    /\ buffer_size = 0
    /\ max_buffers = 0
    /\ buffers = <<>>
    /\ pass_bytes = 0
    /\ full_sync = FALSE
    /\ io_failed = -1
    /\ verified = FALSE
    /\ post_ran = FALSE
    /\ filesystem_type = NoFilesystem
    /\ verdict = "none"
    /\ steps = <<>>
    /\ hooks = NoHooks
    /\ held = <<>>
    /\ next_id = 0
    /\ last_op = NoOp
    /\ mw = Idle
    /\ mcall = Idle
    /\ dirs = <<>>
    /\ batch = Idle
    /\ rv = Idle
    /\ \E m \in MountsInputs, s \in StatInputs :
          probe = [pc |-> "detect",
                   mounts |-> m,         \* what /proc/mounts gives
                   stat |-> s,           \* what the stat command would give
                   stat_ran |-> FALSE,   \* history: the command was run
                   returned |-> FsErr,   \* what detect_filesystem_type returned
                   filesystem_type |-> NoFilesystem]

\* detect_filesystem_type runs and returns
DetectFilesystemType ==
    /\ probe.pc = "detect"
    /\ probe' = [probe EXCEPT
          !.pc = "returned",
          !.stat_ran = (probe.mounts = NoMatch),
          !.returned = detect_filesystem_type(probe.mounts, probe.stat)]
    /\ UNCHANGED <<wipeVars, buffers, poolVars, metaVars, batch, rv>>

\* wipe binds filesystem_type with unwrap_or(FilesystemType::Unknown)
BindFilesystemType ==
    /\ probe.pc = "returned"
    /\ probe' = [probe EXCEPT
          !.pc = "done",
          !.filesystem_type = unwrap_or(probe.returned, "Unknown")]
    /\ UNCHANGED <<wipeVars, buffers, poolVars, metaVars, batch, rv>>

FsProbeNext ==
    \/ DetectFilesystemType
    \/ BindFilesystemType

FsProbeSpec == FsProbeInit /\ [][FsProbeNext]_vars

\* C22: when /proc/mounts cannot be read, detect_filesystem_type still runs
\* the stat query and returns the type it reports, Unknown only if the query
\* fails too; it does not return an error.
C22_ProbeFallback ==
    (probe.pc # "detect" /\ probe.mounts = Unreadable) =>
        /\ probe.stat_ran
        /\ probe.returned.ok
        /\ probe.returned.fs =
              IF probe.stat = CommandFailed THEN "Unknown"
              ELSE parse_filesystem_type(probe.stat)

-----------------------------------------------------------------------------
(* Claims about the optimizer hooks *)

\* C23: for every filesystem class and every outcome of the external
\* command (missing, or exiting non-zero) pre_wipe_setup and
\* post_wipe_cleanup return Ok, so a hook never ends the wipe: a wipe that
\* fails does so at the stat, in a pass, in the verifier or at the unlink.
C23_HooksAdvisory ==
    /\ \A fs \in FilesystemTypes :
          /\ \A cmd \in CommandRuns(PreCommand(fs)) :
                pre_wipe_setup(fs, cmd) = "Ok"
          /\ \A cmd \in CommandRuns(PostCommand(fs)) :
                post_wipe_cleanup(fs, cmd) = "Ok"
    /\ filesystem_type \in FilesystemTypes \cup {NoFilesystem}
    /\ result = "Err" =>
          steps[Len(steps)] \in {"medium_probe", "pass", "verify", "unlink"}
    /\ (exists /\ pc # "wipe") => WipeStarted
    /\ post_ran => pc \in {"post", "done", "failed"}

\* on Btrfs chattr could not be run and sync exited non-zero, and the wipe
\* still ran its passes, unlinked the file and returned Ok
C23_Witness ==
    /\ filesystem_type = "Btrfs"
    /\ hooks.pre = "missing"
    /\ hooks.post = "nonzero"
    /\ file_size > 0
    /\ pass_num = Len(patterns)
    /\ ~exists
    /\ result = "Ok"


-----------------------------------------------------------------------------
\* The medium probe: storage/detector.rs.

MaxMinor == 17
MaxSysLen == 2
DEFAULT_OPTIMAL_IO_SIZE == 4096
DEFAULT_LOGICAL_BLOCK_SIZE == 512

\* Linux device numbers as st_dev carries them, for majors below 4096: the
\* major above the eight low bits of the minor, the rest of the minor higher
makedev(major, minor) ==
    major * 256 + (minor % 256) + (minor \div 256) * 1048576

\* the major a device number belongs to
MajorOf(dev) == (dev \div 256) % 4096

Majors == {0, 8, 253, 259}
Minors == 0..MaxMinor
Devs == {makedev(ma, mi) : ma \in Majors, mi \in Minors}

\* what a sysfs attribute file holds: unreadable, or a short text
SysChars == {"0", "1", "x", "\n"}
SysTexts == SeqsUpTo(SysChars, MaxSysLen)
NoFile == [readable |-> FALSE, text |-> <<>>]
SysContents ==
    {NoFile} \cup {[readable |-> TRUE, text |-> t] : t \in SysTexts}
NoValue == -1

Digit(c) == IF c = "1" THEN 1 ELSE 0
IsDigit(c) == c \in {"0", "1"}
IsSpace(c) == c = "\n"

RECURSIVE trim_start(_)
trim_start(s) ==
    IF s # <<>> /\ IsSpace(Head(s)) THEN trim_start(Tail(s)) ELSE s

RECURSIVE trim_end(_)
trim_end(s) ==
    IF s # <<>> /\ IsSpace(s[Len(s)])
    THEN trim_end(SubSeq(s, 1, Len(s) - 1))
    ELSE s

trim(s) == trim_end(trim_start(s))

RECURSIVE DecimalValue(_)
DecimalValue(s) ==
    IF s = <<>> THEN 0
    ELSE 10 * DecimalValue(SubSeq(s, 1, Len(s) - 1)) + Digit(s[Len(s)])

\* str::parse::<usize>: a non-empty run of decimal digits, NoValue otherwise
parse(s) ==
    IF s # <<>> /\ \A i \in 1..Len(s) : IsDigit(s[i])
    THEN DecimalValue(s)
    ELSE NoValue

read_sys_value(contents) ==
    IF ~contents.readable THEN NoValue ELSE parse(trim(contents.text))

value_or(v, default) == IF v = NoValue THEN default ELSE v

UnknownDevice == [kind |-> "unknown", index |-> 0, ns |-> 0]

get_device_for_path(dev) ==
    LET major == (dev \div 256) % 256
        minor == dev % 256
    IN  IF major = 8
        THEN [kind |-> "sd", index |-> minor \div 16, ns |-> 0]
        ELSE IF major = 259
        THEN [kind |-> "nvme", index |-> minor \div 2, ns |-> (minor % 2) + 1]
        ELSE UnknownDevice

SysFiles ==
    {"optimal_io_size", "rotational", "logical_block_size",
     "discard_granularity"}

Descriptor(kind, size, trim_support) ==
    [ok |-> TRUE, kind |-> kind, size |-> size, trim_support |-> trim_support]

StorageErr ==
    [ok |-> FALSE, kind |-> "Err", size |-> 0, trim_support |-> FALSE]

check_trim_support(sysfs) ==
    value_or(read_sys_value(sysfs["discard_granularity"]), 0) > 0

detect_storage_for_device(device, sysfs) ==
    IF device = UnknownDevice
    THEN Descriptor("Unknown", 0, FALSE)
    ELSE IF device.kind = "nvme"
    THEN Descriptor("NVMe",
                    value_or(read_sys_value(sysfs["optimal_io_size"]),
                             DEFAULT_OPTIMAL_IO_SIZE),
                    FALSE)
    ELSE IF value_or(read_sys_value(sysfs["rotational"]), 1) = 1
    THEN Descriptor("HDD",
                    value_or(read_sys_value(sysfs["logical_block_size"]),
                             DEFAULT_LOGICAL_BLOCK_SIZE),
                    FALSE)
    ELSE Descriptor("SSD", 0, check_trim_support(sysfs))

detect_storage_type(stat_ok, dev, sysfs) ==
    IF ~stat_ok THEN StorageErr
    ELSE detect_storage_for_device(get_device_for_path(dev), sysfs)

MediumInit ==
    /\ mode = "Fast"
    /\ verify = FALSE
    /\ storage_type = [kind |-> "Unknown", size |-> 0]
    /\ content = <<>>
    /\ exists = TRUE
    /\ pc = "idle"
    /\ result = "none"
    /\ file_size = 0
    /\ patterns = <<>>
    /\ pass_num = 0
    /\ bytes_written = 0
    /\ chunk_size = 0
    /\ tasks = <<>>
    /\ concurrency_limit = 0
    /\ permits = 0
    /\ buffer_size = 0
    /\ max_buffers = 0
    /\ buffers = <<>>
    /\ pass_bytes = 0
    /\ full_sync = FALSE
    /\ io_failed = -1
    /\ verified = FALSE
    /\ post_ran = FALSE
    /\ filesystem_type = NoFilesystem
    /\ verdict = "none"
    /\ steps = <<>>
    /\ hooks = NoHooks
    /\ held = <<>>
    /\ next_id = 0
    /\ last_op = NoOp
    /\ mw = Idle
    /\ mcall = Idle
    /\ dirs = <<>>
    /\ batch = Idle
    /\ rv = Idle
    /\ \E ok \in BOOLEAN, d \in Devs :
          probe = [pc |-> "detect",
                   stat_ok |-> ok,       \* fs::metadata(path) succeeds
                   dev |-> d,            \* the st_dev it reports
                   first |-> NoFile,     \* history: the sysfs contents
                   second |-> NoFile,    \* the probe had before it
                   returned |-> StorageErr,
                   block_size |-> 0]

\* detect_storage_type runs and returns; of the sysfs queue directory it
\* reads optimal_io_size or rotational first, and after rotational either
\* logical_block_size or discard_granularity
DetectStorageType ==
    /\ probe.pc = "detect"
    /\ \E first \in SysContents, second \in SysContents :
          LET sysfs == [f \in SysFiles |->
                           IF f \in {"optimal_io_size", "rotational"}
                           THEN first ELSE second]
          IN  probe' = [probe EXCEPT
                 !.pc = "returned",
                 !.first = first,
                 !.second = second,
                 !.returned = detect_storage_type(probe.stat_ok, probe.dev,
                                                  sysfs)]
    /\ UNCHANGED <<wipeVars, buffers, poolVars, metaVars, batch, rv>>

\* wipe propagates the error with ? and asks the descriptor for its block
\* size otherwise
BindStorageType ==
    /\ probe.pc = "returned"
    /\ probe' = [probe EXCEPT
          !.pc = IF probe.returned.ok THEN "done" ELSE "failed",
          !.block_size =
              IF ~probe.returned.ok THEN 0
              ELSE IF probe.returned.kind \in {"HDD", "NVMe"}
                   THEN probe.returned.size
                   ELSE DEFAULT_BLOCK_SIZE]
    /\ UNCHANGED <<wipeVars, buffers, poolVars, metaVars, batch, rv>>

MediumNext ==
    \/ DetectStorageType
    \/ BindStorageType

MediumSpec == MediumInit /\ [][MediumNext]_vars

\* C24: detect_storage_type returns an error only when the stat fails; a
\* device of an unmapped major gives Unknown, one of major 259 gives NVMe
\* with optimal_io_size defaulting to 4096, one of major 8 gives HDD (block
\* size defaulting to 512) when rotational reads 1 and SSD (trim_support iff
\* discard_granularity > 0, default false) when it reads 0.
C24_MediumProbe ==
    probe.pc # "detect" =>
        LET r == probe.returned
            rot == read_sys_value(probe.first)
            snd == read_sys_value(probe.second)
        IN  /\ ~r.ok <=> ~probe.stat_ok
            /\ probe.stat_ok =>
                  /\ MajorOf(probe.dev) \notin {8, 259} =>
                        r.kind = "Unknown"
                  /\ MajorOf(probe.dev) = 259 =>
                        /\ r.kind = "NVMe"
                        /\ r.size = value_or(read_sys_value(probe.first),
                                             DEFAULT_OPTIMAL_IO_SIZE)
                  /\ (MajorOf(probe.dev) = 8 /\ rot = 1) =>
                        /\ r.kind = "HDD"
                        /\ r.size = value_or(snd, DEFAULT_LOGICAL_BLOCK_SIZE)
                  /\ (MajorOf(probe.dev) = 8 /\ rot = 0) =>
                        /\ r.kind = "SSD"
                        /\ r.trim_support = (value_or(snd, 0) > 0)


\* C25: each pass terminates with Ok or Err for every file size and every
\* descriptor of the medium, a block size of 0 included: every iteration of
\* the streamed loop writes at least one byte, so bytes_written strictly
\* increases, and the chunk-count computation of the parallel path does not
\* fault.
C25_PassTermination ==
    /\ (pc = "stream" /\ bytes_written < file_size) =>
          Min(get_optimal_block_size(storage_type),
              file_size - bytes_written) >= 1
    /\ pc # "panicked"


-----------------------------------------------------------------------------
\* Progress of a parallel pass.

\* The runtime keeps polling a future that can make progress and the blocking
\* pool keeps running the closures handed to it: a step that stays possible
\* is eventually taken.
\* the buffer size has no part in the scheduling: one value of it
ParFairInit == ParInit /\ buffer_size = 1

ParFairSpec == ParFairInit /\ [][ParNext]_vars /\ WF_vars(ParNext)

Returned == pc \in {"done", "failed"}

MoreChunksThanPermits == pc = "par" /\ Len(tasks) > concurrency_limit

\* chunk task i acquired a permit and its closure ran to its end
Finished(i) == i \in TaskIds /\ tasks[i].st \in {"ok", "joined", "err"}

\* C26 as stated: with more chunks than permits every chunk task eventually
\* acquires a permit and finishes, parallel_wipe eventually returns, and
\* after it returned all the permits are back.
C26_EveryChunkFinishes ==
    /\ \A i \in 1..MaxParFile :
          (MoreChunksThanPermits /\ i \in TaskIds) ~> Finished(i)
    /\ MoreChunksThanPermits ~> Returned
    /\ [](Returned => permits = concurrency_limit)

\* C26, amended: with more chunks than permits parallel_wipe eventually
\* returns; when it returns Ok every chunk task has acquired a permit and
\* finished, when it returns Err the chunk tasks still waiting for a permit
\* were dropped and never acquire one; after either return all the permits
\* are back.
C26_ParallelProgress ==
    /\ MoreChunksThanPermits ~> Returned
    /\ [](pc = "done" => \A i \in TaskIds : tasks[i].st = "joined")
    /\ [](pc = "failed" =>
             \A i \in TaskIds : tasks[i].st # "waiting" /\ ~tasks[i].permit)
    /\ [](Returned => permits = concurrency_limit)

C26_Witness ==
    /\ pc = "done"
    /\ Len(tasks) > concurrency_limit
    /\ \A i \in TaskIds : tasks[i].st = "joined"
    /\ permits = concurrency_limit


-----------------------------------------------------------------------------
\* C27: for any rename_iterations and any other entries of the parent
\* directory, wipe_metadata never replaces, renames or removes a directory
\* entry other than the one it was given: after it returns, every other entry
\* that was there at the call is still there, unchanged.
C27_RenamesTouchOnlyTarget ==
    mcall.pc = "done" =>
        \A d \in Dirs, n \in Names :
            mcall.before[d][n].who = "other" =>
                dirs[d][n] = mcall.before[d][n]

=============================================================================
